---------------------------- MODULE Spec2Model ----------------------------
(***************************************************************************)
(* A model of Dalee/web-recorder: the Recorder class (src/recorder.ts),    *)
(* which runs on the main thread, and the recorder worker                  *)
(* (src/workers/recorder.worker.ts), which buffers the audio chunks and    *)
(* exports them as a WAV file.  The two exchange messages over two FIFO    *)
(* queues (toWorker, toMain).                                              *)
(*                                                                         *)
(* Samples are exact rationals <<n, d>> (d > 0, lowest terms); <<0, 0>>    *)
(* stands for NaN.  The rounding of a value to a 32-bit float when it is   *)
(* stored in a Float32Array is not modelled.                               *)
(***************************************************************************)
EXTENDS Integers, Sequences, FiniteSets, TLC

(***************************************************************************)
(* Bounds of the model.                                                    *)
(***************************************************************************)
\* audio callbacks delivered by the audio graph (one unit of currentTime each)
MaxTime == 3
\* calls of the public methods start, stop, reset, abort, getBuffer
MaxCalls == 5
\* frames per chunk of the lifecycle model (4096 in the code, scaled down)
BufferLen == 2
\* messages handled by the worker in the worker-only specification
MaxMsgs == 6
\* longest chunk of the worker-only specification
MaxChunkLen == 2
\* longest array passed to interleave and floatTo16BitPCM in the
\* specification of the pure functions
MaxLen == 3
\* longest array passed to downsampleBuffer there
MaxBufferLen == 8
\* highest sample rate passed to downsampleBuffer there
MaxRate == 5

(***************************************************************************)
(* Values of the platform.                                                 *)
(***************************************************************************)
\* the value of an uninitialised variable or an omitted option
Undefined == -1

\* context.sampleRate, the source rate (scaled down)
ContextSampleRate == 4

\* stream.getAudioTracks().length
AudioTracks == 2

NaN == <<0, 0>>

(***************************************************************************)
(* Exact arithmetic on samples.                                            *)
(***************************************************************************)
Abs(n) == IF n < 0 THEN -n ELSE n

Min(a, b) == IF a < b THEN a ELSE b

Max(a, b) == IF a > b THEN a ELSE b

\* the greatest common divisor of a >= 0 and b > 0
RECURSIVE GCD(_, _)
GCD(a, b) == IF a % b = 0 THEN b ELSE GCD(b, a % b)

\* the rational n/d in lowest terms, d > 0
Rat(n, d) ==
    LET g == GCD(Abs(n), d)
    IN  IF n = 0 THEN <<0, 1>> ELSE <<n \div g, d \div g>>

IsNaN(x) == x = NaN

RAdd(x, y) ==
    IF IsNaN(x) \/ IsNaN(y) THEN NaN
    ELSE Rat(x[1] * y[2] + y[1] * x[2], x[2] * y[2])

\* x / count as the code's accum / count: 0 / 0 is NaN
RDivInt(x, count) ==
    IF IsNaN(x) THEN NaN
    ELSE IF count = 0 THEN NaN
    ELSE Rat(x[1], x[2] * count)

\* Math.floor in the place of Math.round
Round_floor(n, d) == n \div d

\* Math.round(n / d) for d > 0: the nearest integer, halves rounded up
Round(n, d) == (2 * n + d) \div (2 * d)

\* the truncation toward zero of n / d, d > 0
Trunc(n, d) == IF n >= 0 THEN n \div d ELSE -((-n) \div d)

\* ToInt16 of DataView.setInt16: an integer modulo 2^16, read as signed
ToInt16(v) ==
    LET m == v % 65536
    IN  IF m >= 32768 THEN m - 65536 ELSE m

RECURSIVE SumSeq(_)
SumSeq(xs) == IF xs = <<>> THEN <<0, 1>> ELSE RAdd(Head(xs), SumSeq(Tail(xs)))

RECURSIVE TotalLen(_)
TotalLen(chunks) == IF chunks = <<>> THEN 0 ELSE Len(Head(chunks)) + TotalLen(Tail(chunks))

(***************************************************************************)
(* The worker's pure functions.  An operator named ...Throws tells when    *)
(* the function ends in an uncaught exception.                             *)
(***************************************************************************)
\* recorder.worker.ts mergeBuffers: TypedArray.set throws a RangeError when
\* a chunk does not fit in the recLength samples of result
mergeBuffersThrows(chunks, len) == TotalLen(chunks) > len

\* TypedArray.set(array, offset): array written into target from offset on
Set(target, array, offset) ==
    [i \in 1..Len(target) |->
        IF i > offset /\ i <= offset + Len(array) THEN array[i - offset]
        ELSE target[i]]

\* the loop of mergeBuffers from chunk index on: each chunk is set at offset,
\* which then advances by the chunk's length
RECURSIVE MergeFrom(_, _, _, _)
MergeFrom(result, chunks, index, offset) ==
    IF index > Len(chunks) THEN result
    ELSE MergeFrom(Set(result, chunks[index], offset), chunks, index + 1,
                   offset + Len(chunks[index]))

\* mergeBuffers whose offset never advances: every chunk is set at 0
mergeBuffers_noOffset(chunks, len) ==
    LET Zeros == [i \in 1..len |-> <<0, 1>>]
        F[index \in 0..Len(chunks)] ==
            IF index = 0 THEN Zeros ELSE Set(F[index - 1], chunks[index], 0)
    IN  F[Len(chunks)]

\* recorder.worker.ts mergeBuffers: a zero-filled array of recLength samples
\* with the chunks set at increasing offsets
mergeBuffers(chunks, len) ==
    MergeFrom([i \in 1..len |-> <<0, 1>>], chunks, 1, 0)

\* recorder.worker.ts interleave: no statement of it throws, whatever the
\* lengths of its inputs
interleaveThrows(inputL, inputR) == FALSE

\* interleave that starts with the right channel
interleave_swapped(inputL, inputR) ==
    [index \in 1..(Len(inputL) + Len(inputR)) |->
        IF index % 2 = 1 THEN inputR[(index + 1) \div 2]
                         ELSE inputL[index \div 2]]

\* recorder.worker.ts interleave: a read past the end of an input is
\* undefined, stored as NaN; a write past the end of result is dropped
interleave(inputL, inputR) ==
    LET length == Len(inputL) + Len(inputR)
        At(input, k) == IF k <= Len(input) THEN input[k] ELSE NaN
    IN  [index \in 1..length |->
            IF index % 2 = 1 THEN At(inputL, (index + 1) \div 2)
                             ELSE At(inputR, index \div 2)]

\* one sample of floatTo16BitPCM without the clamp to [-1, 1]
PCM16_noClamp(x) ==
    IF IsNaN(x) THEN 0
    ELSE ToInt16(Trunc(x[1] * (IF x[1] < 0 THEN 32768 ELSE 32767), x[2]))

\* one sample of floatTo16BitPCM: clamp to [-1, 1], scale by 0x8000 below
\* zero and by 0x7fff otherwise, setInt16 truncates (NaN is written as 0)
PCM16(x) ==
    IF IsNaN(x) THEN 0
    ELSE LET s == IF x[1] > x[2] THEN <<1, 1>>
                  ELSE IF x[1] < -x[2] THEN <<-1, 1>> ELSE x
         IN  ToInt16(Trunc(s[1] * (IF s[1] < 0 THEN 32768 ELSE 32767), s[2]))

floatTo16BitPCM(input) == [i \in 1..Len(input) |-> PCM16(input[i])]

\* downsampleBuffer that accepts any rate
downsampleBufferThrows_never(rate, srcRate) == FALSE

\* recorder.worker.ts downsampleBuffer: upsampling is refused
downsampleBufferThrows(rate, srcRate) == rate > srcRate

\* recorder.worker.ts downsampleBuffer, with the worker's sampleRate passed in
downsampleBuffer(buffer, rate, srcRate) ==
    IF rate = srcRate THEN buffer
    ELSE LET newLength == Round(Len(buffer) * rate, srcRate)
             \* offsetBuffer when result[k] is computed (k from 0)
             Offset(k) == IF k = 0 THEN 0 ELSE Round(k * srcRate, rate)
             Block(k) == Offset(k) .. (Min(Offset(k + 1), Len(buffer)) - 1)
             Accum(k) == SumSeq([j \in 1..Cardinality(Block(k)) |->
                                    buffer[Offset(k) + j]])
         IN  [k1 \in 1..newLength |->
                 RDivInt(Accum(k1 - 1), Cardinality(Block(k1 - 1)))]

\* DataView.setUint16 keeps a value modulo 2^16
Uint16(v) == v % 65536

\* DataView.setUint32 keeps a value modulo 2^32: the identity on 0..2^31-1,
\* the only integers of that range the model checker represents
Uint32(v) == v

\* encodeWAV whose byte rate is that of a stereo file (rate * 4)
encodeWAV_stereoByteRate(samples, rate, nCh) ==
    [ riff          |-> "RIFF",
      riffLength    |-> Uint32(36 + Len(samples) * 2),
      wave          |-> "WAVE",
      fmt           |-> "fmt ",
      fmtLength     |-> 16,
      format        |-> 1,
      channels      |-> Uint16(nCh),
      sampleRate    |-> Uint32(rate),
      byteRate      |-> Uint32(rate * 4),
      blockAlign    |-> Uint16(nCh * 2),
      bitsPerSample |-> 16,
      data          |-> "data",
      dataLength    |-> Uint32(Len(samples) * 2),
      pcm           |-> floatTo16BitPCM(samples),
      byteLength    |-> 44 + Len(samples) * 2 ]

\* recorder.worker.ts encodeWAV: the 44-byte header as its fields (each as
\* wide as the DataView setter that writes it) and the 16-bit samples
encodeWAV(samples, rate, nCh) ==
    [ riff          |-> "RIFF",
      riffLength    |-> Uint32(36 + Len(samples) * 2),
      wave          |-> "WAVE",
      fmt           |-> "fmt ",
      fmtLength     |-> 16,
      format        |-> 1,
      channels      |-> Uint16(nCh),
      sampleRate    |-> Uint32(rate),
      byteRate      |-> Uint32(rate * nCh * 2),
      blockAlign    |-> Uint16(nCh * 2),
      bitsPerSample |-> 16,
      data          |-> "data",
      dataLength    |-> Uint32(Len(samples) * 2),
      pcm           |-> floatTo16BitPCM(samples),
      byteLength    |-> 44 + Len(samples) * 2 ]

(***************************************************************************)
(* The state.                                                              *)
(***************************************************************************)
VARIABLES
    \* Recorder (recorder.ts)
    options,        \* the options the constructor built
    recording,
    ready,
    quietTime,
    maxVolume,
    connected,      \* source and scriptProcessorNode are wired into the graph
    tracksStopped,  \* kill() stopped the stream's audio tracks
    now,            \* context.currentTime, in audio callbacks
    \* the worker (recorder.worker.ts)
    terminated,     \* worker.terminate() was called
    recLength,
    recBuffers,
    sampleRate,
    numChannels,
    \* the two message queues
    toWorker,
    toMain,
    \* notifications
    events,         \* the observed events dispatched so far, in order
    \* history
    hist

vars == <<options, recording, ready, quietTime, maxVolume, connected,
          tracksStopped, now, terminated, recLength, recBuffers, sampleRate,
          numChannels, toWorker, toMain, events, hist>>

\* the event types the log keeps: the export and the teardown.  The other
\* types (ready, start, reset, stop, audioprocess) are dispatched and not kept
Observed == {"data", "end"}

\* the program's state as one record, for the methods that call each other
State ==
    [ options |-> options, recording |-> recording, ready |-> ready,
      quietTime |-> quietTime, maxVolume |-> maxVolume,
      connected |-> connected, tracksStopped |-> tracksStopped, now |-> now,
      terminated |-> terminated, recLength |-> recLength,
      recBuffers |-> recBuffers, sampleRate |-> sampleRate,
      numChannels |-> numChannels, toWorker |-> toWorker, toMain |-> toMain,
      events |-> events ]

Apply(s) ==
    /\ options' = s.options
    /\ recording' = s.recording
    /\ ready' = s.ready
    /\ quietTime' = s.quietTime
    /\ maxVolume' = s.maxVolume
    /\ connected' = s.connected
    /\ tracksStopped' = s.tracksStopped
    /\ now' = s.now
    /\ terminated' = s.terminated
    /\ recLength' = s.recLength
    /\ recBuffers' = s.recBuffers
    /\ sampleRate' = s.sampleRate
    /\ numChannels' = s.numChannels
    /\ toWorker' = s.toWorker
    /\ toMain' = s.toMain
    /\ events' = s.events

(***************************************************************************)
(* The platform: events, Worker.postMessage and Worker.terminate.          *)
(***************************************************************************)
\* EventTarget.dispatchEvent(new CustomEvent(type, {detail}))
dispatchEvent(s, type, detail) ==
    IF type \in Observed
    THEN [s EXCEPT !.events = Append(@, [type |-> type, detail |-> detail])]
    ELSE s

\* this.worker.postMessage(msg): a terminated worker receives nothing
postMessage(s, msg) ==
    IF s.terminated THEN s ELSE [s EXCEPT !.toWorker = Append(@, msg)]

\* terminate() that leaves the replies already posted to be delivered
terminate_keepsReplies(s) == [s EXCEPT !.terminated = TRUE, !.toWorker = <<>>]

\* this.worker.terminate(): the worker stops at once, the messages it has
\* not handled are discarded and so are its replies not yet delivered
terminate(s) ==
    [s EXCEPT !.terminated = TRUE, !.toWorker = <<>>, !.toMain = <<>>]

\* ctx.postMessage(msg), the worker's reply to the main thread
ctxPostMessage(s, msg) == [s EXCEPT !.toMain = Append(@, msg)]

(***************************************************************************)
(* The worker's message handlers (recorder.worker.ts).                     *)
(***************************************************************************)
\* the iterations of "for (channel = 0; channel < numChannels; channel++)":
\* none while numChannels is undefined
Channels(s) == IF s.numChannels = Undefined THEN {} ELSE 1..s.numChannels

initBuffers(s) ==
    [s EXCEPT !.recBuffers =
        [c \in 1..Max(Len(s.recBuffers), Cardinality(Channels(s))) |->
            IF c \in Channels(s) THEN <<>> ELSE s.recBuffers[c]]]

init(s, config) ==
    initBuffers([s EXCEPT !.sampleRate = config.sampleRate,
                          !.numChannels = config.numChannels])

\* recBuffers[channel].push(...) throws a TypeError when recBuffers[channel]
\* is undefined; the channels before it have been pushed by then
record(s, inputBuffer) ==
    LET ok == {c \in Channels(s) : \A b \in 1..c : b <= Len(s.recBuffers)}
        pushed == [s EXCEPT !.recBuffers =
                     [c \in 1..Len(s.recBuffers) |->
                        IF c \in ok
                        THEN Append(s.recBuffers[c],
                                    IF c <= Len(inputBuffer)
                                    THEN inputBuffer[c] ELSE <<>>)
                        ELSE s.recBuffers[c]]]
    IN  IF ok = Channels(s)
        THEN [pushed EXCEPT !.recLength = @ + Len(inputBuffer[1])]
        ELSE pushed

\* exportWAV ends in an uncaught exception: no channel to export (buffers[0]
\* is undefined), a chunk that does not fit, or a rate above the source rate
exportWAVThrows(s, payload) ==
    LET rate == IF payload.rate = Undefined THEN s.sampleRate ELSE payload.rate
    IN  \/ Channels(s) = {}
        \/ \E c \in Channels(s) : c > Len(s.recBuffers)
        \/ \E c \in Channels(s) : mergeBuffersThrows(s.recBuffers[c], s.recLength)
        \/ downsampleBufferThrows(rate, s.sampleRate)

exportWAV(s, payload) ==
    LET rate == IF payload.rate = Undefined THEN s.sampleRate ELSE payload.rate
        buffers == [c \in Channels(s) |-> mergeBuffers(s.recBuffers[c], s.recLength)]
        interleaved == IF s.numChannels = 2
                       THEN interleave(buffers[1], buffers[2])
                       ELSE buffers[1]
        downsampledBuffer == downsampleBuffer(interleaved, rate, s.sampleRate)
        dataview == encodeWAV(downsampledBuffer, rate, s.numChannels)
        audioBlob == [type |-> payload.type, view |-> dataview]
    IN  IF exportWAVThrows(s, payload) THEN s
        ELSE ctxPostMessage(s, [command |-> "exportWAV", payload |-> audioBlob])

workerGetBuffer(s) ==
    IF \E c \in Channels(s) :
          \/ c > Len(s.recBuffers)
          \/ mergeBuffersThrows(s.recBuffers[c], s.recLength)
    THEN s
    ELSE ctxPostMessage(s,
            [command |-> "getBuffer",
             data |-> [c \in Channels(s) |->
                          mergeBuffers(s.recBuffers[c], s.recLength)]])

\* clear() that resets the frame count and keeps the buffered chunks
clear_keepsBuffers(s) == [s EXCEPT !.recLength = 0]

clear(s) == initBuffers([s EXCEPT !.recLength = 0, !.recBuffers = <<>>])

\* ctx.onmessage
onmessage(s, msg) ==
    CASE msg.command = "init" -> init(s, msg.payload)
      [] msg.command = "record" -> record(s, msg.payload.buffer)
      [] msg.command = "exportWAV" -> exportWAV(s, msg.payload)
      [] msg.command = "getBuffer" -> workerGetBuffer(s)
      [] msg.command = "clear" -> clear(s)
      [] OTHER -> s

(***************************************************************************)
(* The Recorder's methods (recorder.ts).                                   *)
(***************************************************************************)
\* the options a caller may pass (IOptionsMaybe): given holds the names of
\* the fields the caller supplies; the value of a field not given is unused
SuppliedOptions ==
    { [given |-> {"quietThresholdTime", "volumeThreshold", "sampleRate"},
       mono |-> TRUE, quietThresholdTime |-> 1, volumeThreshold |-> -50,
       sampleRate |-> ContextSampleRate \div 2],
      [given |-> {"quietThresholdTime", "sampleRate"},
       mono |-> TRUE, quietThresholdTime |-> 1, volumeThreshold |-> 0,
       sampleRate |-> ContextSampleRate * 2] }

\* options.<field> || fallback, for a number: 0 and undefined are falsy
OrNumber(supplied, field, fallback) ==
    IF field \in supplied.given /\ supplied[field] # 0
    THEN supplied[field] ELSE fallback

\* options.<field> || fallback, for a boolean: false and undefined are falsy
OrBoolean(supplied, field, fallback) ==
    IF field \in supplied.given /\ supplied[field]
    THEN supplied[field] ELSE fallback

\* constructor: this.options
constructorOptions(supplied) ==
    [ mono |-> OrBoolean(supplied, "mono", TRUE),
      quietThresholdTime |-> OrNumber(supplied, "quietThresholdTime", 5),
      volumeThreshold |-> OrNumber(supplied, "volumeThreshold", -60),
      sampleRate |-> IF "sampleRate" \in supplied.given
                     THEN supplied.sampleRate ELSE Undefined ]

\* the chunk the audio graph delivers at time t: BufferLen frames on each of
\* the two input channels, every sample of the session different
ChunkAt(t) ==
    LET den == (MaxTime + 1) * BufferLen + 1
        k(j) == (t - 1) * BufferLen + j
    IN  << [j \in 1..BufferLen |-> Rat(IF k(j) % 2 = 0 THEN k(j) ELSE -k(j), den)],
           [j \in 1..BufferLen |-> Rat(IF k(j) % 2 = 0 THEN -k(j) ELSE k(j), den)] >>

\* private exportWAV(type = 'audio/wav', rate = this.options.sampleRate)
postExportWAV(s) ==
    postMessage(s, [command |-> "exportWAV",
                    payload |-> [type |-> "audio/wav",
                                 rate |-> s.options.sampleRate]])

\* kill() that leaves the worker running
kill_keepsWorker(s) ==
    LET s1 == IF s.ready THEN [s EXCEPT !.tracksStopped = TRUE] ELSE s
    IN  IF s.ready /\ ~s.connected
        THEN s1
        ELSE dispatchEvent([s1 EXCEPT !.connected = FALSE], "end", Undefined)

kill(s) ==
    LET s1 == IF s.ready THEN [s EXCEPT !.tracksStopped = TRUE] ELSE s
    IN  IF s.ready /\ ~s.connected
        THEN \* source.disconnect(scriptProcessorNode) throws InvalidAccessError:
             \* the two are not connected any more
             s1
        ELSE dispatchEvent(terminate([s1 EXCEPT !.connected = FALSE]),
                           "end", Undefined)

setup(s) ==
    LET s1 == [s EXCEPT !.connected = TRUE]
        config == [sampleRate |-> ContextSampleRate,
                   numChannels |-> IF s.options.mono THEN 1 ELSE AudioTracks]
        s2 == postMessage(s1, [command |-> "init", payload |-> config])
        s3 == [s2 EXCEPT !.ready = TRUE, !.quietTime = s.now]
    IN  dispatchEvent(s3, "ready", Undefined)

start(s) ==
    LET s1 == IF ~s.ready THEN setup(s) ELSE s
        s2 == dispatchEvent(s1, "start", Undefined)
    IN  [s2 EXCEPT !.recording = TRUE]

\* stop() that forgets to leave the recording state
stop_keepsRecording(s) == postExportWAV(s)

stop(s) == postExportWAV([s EXCEPT !.recording = FALSE])

reset(s) ==
    dispatchEvent(postMessage([s EXCEPT !.recording = FALSE],
                              [command |-> "clear"]),
                  "reset", Undefined)

abort(s) == kill(dispatchEvent(s, "stop", Undefined))

getBuffer(s) == postMessage(s, [command |-> "getBuffer"])

onWorkerMessage(s, data) ==
    IF data.command = "exportWAV"
    THEN kill(dispatchEvent(s, "data", data.payload))
    ELSE s

\* isQuiet() that stops once the quiet time reaches quietThresholdTime
isQuiet_atThreshold(s) ==
    LET delta == s.now - s.quietTime
        isMicQuiet == s.maxVolume < s.options.volumeThreshold
        s1 == IF delta >= s.options.quietThresholdTime /\ isMicQuiet
              THEN stop(s) ELSE s
    IN  IF ~isMicQuiet THEN [s1 EXCEPT !.quietTime = s.now] ELSE s1

isQuiet(s) ==
    LET delta == s.now - s.quietTime
        isMicQuiet == s.maxVolume < s.options.volumeThreshold
        s1 == IF delta > s.options.quietThresholdTime /\ isMicQuiet
              THEN stop(s) ELSE s
    IN  IF ~isMicQuiet THEN [s1 EXCEPT !.quietTime = s.now] ELSE s1

\* the audioprocess listener; volume is the largest value the analyser gives
\* onAudioProcess that checks for silence before it posts the chunk
onAudioProcess_quietFirst(s, inputBuffer, volume) ==
    IF ~s.recording THEN s
    ELSE LET s1 == dispatchEvent(s, "audioprocess", inputBuffer)
             s2 == isQuiet([s1 EXCEPT !.maxVolume = volume])
         IN  postMessage(s2, [command |-> "record",
                              payload |-> [buffer |-> inputBuffer]])

onAudioProcess(s, inputBuffer, volume) ==
    IF ~s.recording THEN s
    ELSE LET s1 == dispatchEvent(s, "audioprocess", inputBuffer)
             s2 == postMessage(s1, [command |-> "record",
                                    payload |-> [buffer |-> inputBuffer]])
         IN  isQuiet([s2 EXCEPT !.maxVolume = volume])

(***************************************************************************)
(* History variables: what has happened so far, read by the properties.    *)
(* No action of the program reads them.                                    *)
(***************************************************************************)
HistInit ==
    [ calls |-> 0,          \* calls of the public methods so far
      phase |-> "Uninitialized",  \* the lifecycle state of the specification
      aborted |-> FALSE,    \* abort() has been called
      cancelled |-> "none", \* what an abort() found in flight: an export
                            \* "request", its "reply", or "none"
      stopDue |-> FALSE,    \* a stop took the session out of recording and
                            \* no 'data' has been dispatched since
      autoStops |-> 0,      \* silence stops since the last start()
      quietObsFrom |-> -1,  \* the time of the first observation since the
                            \* last start() while all of them were below the
                            \* threshold; -1: none yet, -2: one was not
      lastLoud |-> -1,      \* the time of the last observation at or above
                            \* the threshold; -1: none yet
      lastChunk |-> 0,      \* the time of the last chunk posted to the worker
      resetAt |-> 0,        \* lastChunk when reset() was last called
      marks |-> <<>>,       \* resetAt when each export request waiting in
                            \* toWorker was posted
      startAt |-> 0,        \* the time of the last start() that found the
                            \* session not recording: the cycle's start
      cycles |-> <<>>,      \* for each export request waiting in toWorker,
                            \* <<startAt, lastChunk>> when it was posted by a
                            \* stop that found the session recording: the
                            \* cycle's chunks are those of the times
                            \* startAt + 1 .. lastChunk; <<0, 0>> otherwise
      dropped |-> FALSE,    \* handling an export's reply discarded another
                            \* export request or reply
      afterAbort |-> "none",  \* abort() while recording, then reset(), then
                              \* start(): "aborted", "reset", "started"
      afterFailure |-> "none" ] \* an export refused for its rate, then
                                \* reset(), start(), a new chunk buffered, the
                                \* next export refused: "failed", "reset",
                                \* "started", "buffered", "failedAgain"

NumExports(queue) ==
    Cardinality({i \in 1..Len(queue) : queue[i].command = "exportWAV"})

IsData(e) == e.type = "data"

NumData(log) == Cardinality({i \in 1..Len(log) : IsData(log[i])})

\* the marks after a step of the main thread from s0 to s1
MarksAfter(h, s0, s1) ==
    IF s1.terminated THEN <<>>
    ELSE IF NumExports(s1.toWorker) > NumExports(s0.toWorker)
    THEN Append(h.marks, h.resetAt)
    ELSE h.marks

\* the cycles after a step of the main thread from s0 to s1, the last chunk
\* posted by then being that of time last
CyclesAfter(h, s0, s1, last) ==
    IF s1.terminated THEN <<>>
    ELSE IF NumExports(s1.toWorker) > NumExports(s0.toWorker)
    THEN Append(h.cycles, IF s0.recording THEN <<h.startAt, last>>
                          ELSE <<0, 0>>)
    ELSE h.cycles

HistStart(h, s0, s1) ==
    [h EXCEPT !.calls = @ + 1,
              !.phase = "Recording",
              !.startAt = IF s0.recording THEN @ ELSE s0.now,
              !.autoStops = 0,
              !.quietObsFrom = -1,
              !.afterAbort = IF @ = "reset" THEN "started" ELSE "none",
              !.afterFailure = IF @ = "reset" THEN "started" ELSE @]

HistStop(h, s0, s1) ==
    [h EXCEPT !.calls = @ + 1,
              !.phase = IF @ = "Recording" THEN "Stopped" ELSE @,
              !.stopDue = @ \/ s0.recording,
              !.marks = MarksAfter(h, s0, s1),
              !.cycles = CyclesAfter(h, s0, s1, h.lastChunk),
              !.afterAbort = "none"]

HistReset(h, s0, s1) ==
    [h EXCEPT !.calls = @ + 1,
              !.phase = IF @ = "Uninitialized" THEN @ ELSE "Ready",
              !.resetAt = h.lastChunk,
              !.afterAbort = IF @ = "aborted" THEN "reset" ELSE "none",
              !.afterFailure = IF @ = "none" THEN @ ELSE "reset"]

HistAbort(h, s0, s1) ==
    [h EXCEPT !.calls = @ + 1,
              !.phase = "Killed",
              !.aborted = TRUE,
              !.cancelled = IF NumExports(s0.toMain) > 0 THEN "reply"
                            ELSE IF NumExports(s0.toWorker) > 0 THEN "request"
                            ELSE @,
              !.marks = MarksAfter(h, s0, s1),
              !.cycles = CyclesAfter(h, s0, s1, h.lastChunk),
              !.afterAbort = IF s0.recording THEN "aborted" ELSE "none",
              !.afterFailure = "none"]

HistGetBuffer(h, s0, s1) == [h EXCEPT !.calls = @ + 1]

\* s0 is the state when the callback starts (its time is s0.now)
HistAudioProcess(h, s0, s1, volume) ==
    LET loud == volume >= s0.options.volumeThreshold
        fired == ~s1.recording
    IN  IF ~s0.recording THEN h
        ELSE [h EXCEPT !.lastChunk = s0.now,
                       !.lastLoud = IF loud THEN s0.now ELSE @,
                       !.quietObsFrom = IF loud THEN -2
                                        ELSE IF @ = -1 THEN s0.now ELSE @,
                       !.autoStops = IF fired THEN @ + 1 ELSE @,
                       !.phase = IF fired THEN "Stopped" ELSE @,
                       !.stopDue = @ \/ fired,
                       !.marks = MarksAfter(h, s0, s1),
                       !.cycles = CyclesAfter(h, s0, s1, s0.now)]

\* the time of the chunk a record message carries (0: none of the session's)
ChunkTime(buffer) ==
    IF \E t \in 1..MaxTime : ChunkAt(t) = buffer
    THEN CHOOSE t \in 1..MaxTime : ChunkAt(t) = buffer
    ELSE 0

HistWorkerStep(h, s0, msg) ==
    CASE msg.command = "exportWAV" ->
            [h EXCEPT !.marks = Tail(@),
                      !.cycles = Tail(@),
                      !.afterFailure =
                          IF Channels(s0) # {}
                             /\ downsampleBufferThrows(
                                   IF msg.payload.rate = Undefined
                                   THEN s0.sampleRate ELSE msg.payload.rate,
                                   s0.sampleRate)
                          THEN (IF @ = "none" THEN "failed"
                                ELSE IF @ = "buffered" THEN "failedAgain"
                                ELSE @)
                          ELSE @]
      [] msg.command = "record" ->
            [h EXCEPT !.afterFailure =
                          IF @ = "started"
                             /\ ChunkTime(msg.payload.buffer) > h.resetAt
                          THEN "buffered" ELSE @]
      [] OTHER -> h

\* s0 is the state before the reply is taken from toMain
HistMainDeliver(h, s0, s1) ==
    [h EXCEPT !.phase = IF s1.terminated /\ ~s0.terminated THEN "Killed" ELSE @,
              !.stopDue = IF NumData(s1.events) > NumData(s0.events)
                          THEN FALSE ELSE @,
              !.dropped = @ \/ (/\ NumData(s1.events) > NumData(s0.events)
                                /\ NumExports(s0.toWorker)
                                      + NumExports(s0.toMain) > 1),
              !.marks = MarksAfter(h, s0, s1),
              !.cycles = CyclesAfter(h, s0, s1, h.lastChunk)]

(***************************************************************************)
(* The lifecycle specification: the public methods, the audio callback,    *)
(* the worker handling a message and the main thread handling a reply.     *)
(***************************************************************************)
Init ==
    /\ options \in {constructorOptions(o) : o \in SuppliedOptions}
    /\ recording = FALSE
    /\ ready = FALSE
    /\ quietTime = 0
    /\ maxVolume = 99
    /\ connected = FALSE
    /\ tracksStopped = FALSE
    /\ now = 0
    /\ terminated = FALSE
    /\ recLength = 0
    /\ recBuffers = <<>>
    /\ sampleRate = Undefined
    /\ numChannels = Undefined
    /\ toWorker = <<>>
    /\ toMain = <<>>
    /\ events = <<>>
    /\ hist = HistInit

Start ==
    /\ hist.calls < MaxCalls
    /\ Apply(start(State))
    /\ hist' = HistStart(hist, State, start(State))

Stop ==
    /\ hist.calls < MaxCalls
    /\ Apply(stop(State))
    /\ hist' = HistStop(hist, State, stop(State))

Reset ==
    /\ hist.calls < MaxCalls
    /\ Apply(reset(State))
    /\ hist' = HistReset(hist, State, reset(State))

Abort ==
    /\ hist.calls < MaxCalls
    /\ Apply(abort(State))
    /\ hist' = HistAbort(hist, State, abort(State))

GetBuffer ==
    /\ hist.calls < MaxCalls
    /\ Apply(getBuffer(State))
    /\ hist' = HistGetBuffer(hist, State, getBuffer(State))

\* the levels the analyser may report: just below the threshold and at it
Volumes == {options.volumeThreshold - 1, options.volumeThreshold}

\* the scriptProcessorNode fires audioprocess, one unit of time after the
\* last one, while it is wired into the graph
AudioProcess ==
    /\ connected
    /\ now < MaxTime
    /\ \E volume \in Volumes :
          LET s0 == [State EXCEPT !.now = now + 1]
              s1 == onAudioProcess(s0, ChunkAt(now + 1), volume)
          IN  /\ Apply(s1)
              /\ hist' = HistAudioProcess(hist, s0, s1, volume)

\* the worker takes the next message of its queue
WorkerStep ==
    /\ ~terminated
    /\ toWorker # <<>>
    /\ LET s0 == [State EXCEPT !.toWorker = Tail(@)]
           s1 == onmessage(s0, Head(toWorker))
       IN  /\ Apply(s1)
           /\ hist' = HistWorkerStep(hist, State, Head(toWorker))

\* the main thread takes the worker's next reply; the 'message' listener is
\* added by setup()
MainDeliver ==
    /\ toMain # <<>>
    /\ LET s0 == [State EXCEPT !.toMain = Tail(@)]
           s1 == IF ready THEN onWorkerMessage(s0, Head(toMain)) ELSE s0
       IN  /\ Apply(s1)
           /\ hist' = HistMainDeliver(hist, State, s1)

Next ==
    \/ Start
    \/ Stop
    \/ Reset
    \/ Abort
    \/ GetBuffer
    \/ AudioProcess
    \/ WorkerStep
    \/ MainDeliver

Spec == Init /\ [][Next]_vars

\* The specification of the liveness properties: the worker and the main
\* thread's event loop keep taking the messages queued for them.
\* WorkerStep is enabled, and every WorkerStep changes toWorker
WorkerEnabled == ~terminated /\ toWorker # <<>>

\* WF_vars(WorkerStep), with ENABLED <<WorkerStep>>_vars written out
WorkerFair == []<>(~WorkerEnabled) \/ []<><<WorkerStep>>_vars

FairSpec ==
    /\ Init
    /\ [][Next]_vars
    /\ WorkerFair
    /\ WF_vars(MainDeliver)

(***************************************************************************)
(* Properties of the lifecycle specification.                              *)
(***************************************************************************)
\* the step is an audio callback (no other step advances currentTime)
AudioCallback == now' = now + 1

\* the step is an audio callback that finds the session recording: an
\* observation of the level
Observation == AudioCallback /\ recording

\* the step is the worker handling a message of the given command (no other
\* step takes the head of toWorker and leaves the worker running)
WorkerHandles(command) ==
    /\ toWorker # <<>>
    /\ Head(toWorker).command = command
    /\ toWorker' = Tail(toWorker)
    /\ ~terminated'

\* the step is an observation that stops the recording: the silence stop
SilenceStop == Observation /\ ~recording'

\* C1: start() called while the session is Recording, Stopped or killed,
\* with no reset() in between, fails: it changes nothing, and the session is
\* not recording afterwards unless it was before.
C1_StartOnlyFromReady ==
    [][(Start /\ hist.phase \in {"Recording", "Stopped", "Killed"})
          => /\ recording' = recording
             /\ UNCHANGED <<ready, quietTime, toWorker, events>>]_vars

\* C2: the silence stop fires exactly once in a recording cycle.  An
\* observation below the threshold made more than quietThresholdTime after
\* quietTime stops the recording and posts exactly one export request; while
\* every observation of the cycle is below the threshold quietTime is not
\* later than the first of them, so observations spanning more than
\* quietThresholdTime reach that case; a callback that finds the session
\* stopped posts nothing; and no cycle holds two silence stops.
C2_SilenceStopsOnce ==
    [][/\ (Observation
            /\ maxVolume' < options.volumeThreshold
            /\ now' - quietTime > options.quietThresholdTime)
          => /\ ~recording'
             /\ hist'.autoStops = 1
             /\ (~terminated =>
                    /\ NumExports(toWorker') = NumExports(toWorker) + 1
                    /\ toWorker'[Len(toWorker')].command = "exportWAV")
       /\ (Observation /\ hist'.quietObsFrom >= 0)
          => quietTime' <= hist'.quietObsFrom
       /\ (AudioCallback /\ ~recording)
          => UNCHANGED <<recording, toWorker, quietTime, events>>
       /\ hist'.autoStops <= 1]_vars

\* a silence stop has fired in a cycle whose observations were all below the
\* threshold
C2_Witness ==
    /\ hist.autoStops = 1
    /\ hist.quietObsFrom >= 0
    /\ ~recording
    /\ NumExports(toWorker) = 1

\* C3: the silence stop fires at an observation only if the level is
\* strictly below volumeThreshold and strictly more than quietThresholdTime
\* has passed since the last observation at or above the threshold; a level
\* equal to the threshold resets the quiet timer, and a quiet time equal to
\* quietThresholdTime does not stop the recording.
C3_SilenceStopBoundaries ==
    [][/\ SilenceStop
          => /\ maxVolume' < options.volumeThreshold
             /\ hist.lastLoud >= 0
                => now' - hist.lastLoud > options.quietThresholdTime
       /\ (Observation /\ maxVolume' = options.volumeThreshold)
          => quietTime' = now' /\ recording'
       /\ (Observation /\ now' - quietTime = options.quietThresholdTime)
          => recording']_vars

\* a silence stop has fired after an observation at the threshold
C3_Witness ==
    /\ hist.autoStops = 1
    /\ hist.lastLoud >= 1
    /\ hist.phase = "Stopped"
    /\ now - hist.lastLoud > options.quietThresholdTime

\* C5: once abort() has been called no 'data' event is dispatched, whatever
\* was in flight between the main thread and the worker.
C5_NoDataAfterAbort ==
    [][hist'.aborted => NumData(events') = NumData(events)]_vars

\* abort() was called while the reply to an export request was in flight
C5_Witness == hist.cancelled = "reply" /\ NumData(events) = 0

\* C6: after abort() during recording, reset() and start() begin a fresh
\* capture: the session records, the audio graph delivers chunks and the
\* worker buffers them.
C6_FreshCaptureAfterAbort ==
    hist.afterAbort = "started" => (recording /\ connected /\ ~terminated)

\* the chunks of the worker's first channel are all newer than time t
AllNewerThan(t) ==
    \A c \in 1..Len(recBuffers) : \A i \in 1..Len(recBuffers[c]) :
        \E u \in (t + 1)..MaxTime : recBuffers[c][i] = ChunkAt(u)[c]

\* C7: reset() leaves the session not recording (it is in phase Ready only
\* after a reset(), until the next start()); when the worker handles
\* the clear message every channel buffer becomes empty and the frame count
\* 0 while sampleRate and numChannels keep their values; and an export
\* requested after a reset() holds no chunk posted before that reset().
C7_ResetClears ==
    [][/\ hist'.phase = "Ready" => ~recording'
       /\ WorkerHandles("clear")
          => /\ recLength' = 0
             /\ \A c \in 1..Len(recBuffers') : recBuffers'[c] = <<>>
             /\ numChannels # Undefined => Len(recBuffers') = numChannels
             /\ sampleRate' = sampleRate
             /\ numChannels' = numChannels
       /\ WorkerHandles("exportWAV")
          => AllNewerThan(Head(hist.marks))]_vars

\* the worker is about to export a chunk posted after a reset() that itself
\* followed a chunk
C7_Witness ==
    /\ ~terminated
    /\ toWorker # <<>>
    /\ Head(toWorker).command = "exportWAV"
    /\ Head(hist.marks) >= 1
    /\ recLength > 0

\* C8 as amended: with a target rate above the source rate no export is
\* ever produced (no reply from the worker, no 'data' event), and the worker
\* keeps running: after reset() and start() it buffers the new chunks.
C8_NoExportAboveSourceRate ==
    options.sampleRate > ContextSampleRate
    => /\ NumData(events) = 0
       /\ NumExports(toMain) = 0
       /\ hist.afterFailure = "buffered"
          => ~terminated /\ recLength > 0 /\ AllNewerThan(hist.resetAt)

\* an export was refused, and after reset(), start() and a new chunk the
\* next export was refused too
C8_Witness ==
    /\ hist.afterFailure = "failedAgain"
    /\ NumData(events) = 0

\* C8 as stated: after a refused export, reset() and start() buffer new
\* chunks and the export of them succeeds.
C8_ExportAfterRecovery == hist.afterFailure # "failedAgain"

\* C9: the arrays the worker merges for getBuffer() reach the caller: when
\* the main thread handles the reply it hands the arrays on, so something
\* other than the queue of replies changes.
\* (The reply holds samples only when getBuffer() was called after a chunk
\* was posted and before any reset(): in Recording or Stopped.)
C9_GetBufferReturns ==
    [][(/\ MainDeliver
        /\ ready
        /\ Head(toMain).command = "getBuffer"
        /\ \E c \in DOMAIN Head(toMain).data : Len(Head(toMain).data[c]) > 0)
          => [State EXCEPT !.toMain = <<>>]' # [State EXCEPT !.toMain = <<>>]]_vars

\* the target rate of the session's exports is not above the source rate
RateAccepted == options.sampleRate <= ContextSampleRate

\* the last two events are 'data', carrying a WAV file, and then 'end'
DataThenEnd ==
    /\ Len(events) >= 2
    /\ events[Len(events) - 1].type = "data"
    /\ events[Len(events) - 1].detail.type = "audio/wav"
    /\ events[Len(events)].type = "end"

\* 'data' and then 'end' have been dispatched for every stop so far
Exported == ~hist.stopDue /\ DataThenEnd

\* C4: every stop (explicit or by silence) that takes the session out of
\* recording, with a target rate not above the source rate, is eventually
\* followed by 'data' and then 'end'; runs in which abort() cancels the
\* export are left aside.
C4_EveryStopLeadsToData ==
    (hist.stopDue /\ RateAccepted) ~> (Exported \/ hist.aborted)

\* What holds instead: the stop is followed by 'data' and then 'end' when
\* the worker is still running at the stop, that is in the first cycle.
StopLeadsToDataWhileWorkerRuns ==
    (hist.stopDue /\ ~terminated /\ RateAccepted)
        ~> (Exported \/ hist.aborted)

\* 'data' then 'end' were dispatched for a stop, with no abort()
ExportedOnce == Exported /\ ~hist.aborted /\ hist.phase = "Killed"

\* The lifecycle specification for a session whose quietThresholdTime is
\* two units of time.
QuietInit ==
    /\ options = constructorOptions(
                    [given |-> {"quietThresholdTime", "volumeThreshold",
                                "sampleRate"},
                     mono |-> TRUE, quietThresholdTime |-> 2,
                     volumeThreshold |-> -50,
                     sampleRate |-> ContextSampleRate])
    /\ recording = FALSE
    /\ ready = FALSE
    /\ quietTime = 0
    /\ maxVolume = 99
    /\ connected = FALSE
    /\ tracksStopped = FALSE
    /\ now = 0
    /\ terminated = FALSE
    /\ recLength = 0
    /\ recBuffers = <<>>
    /\ sampleRate = Undefined
    /\ numChannels = Undefined
    /\ toWorker = <<>>
    /\ toMain = <<>>
    /\ events = <<>>
    /\ hist = HistInit

QuietSpec == QuietInit /\ [][Next]_vars

\* C17: the silence stop never fires earlier than quietThresholdTime after
\* the most recent start() (the one that began the cycle), whatever time
\* passed while the session was not recording.
C17_SilenceStopAfterStart ==
    [][SilenceStop => now' - hist.startAt >= options.quietThresholdTime]_vars

NumEnd(log) == Cardinality({i \in 1..Len(log) : log[i].type = "end"})

\* C18: whatever start(), stop(), reset() and audio callbacks are made and
\* however the messages are delivered, at most one 'data' and at most one
\* 'end' are dispatched, so no capture cycle has two; two stop() calls made
\* before the first reply is handled give one export.
C18_OneDataOneEnd ==
    ~hist.aborted => NumData(events) <= 1 /\ NumEnd(events) <= 1

\* 'data' was dispatched once although two exports had been requested
\* before the first reply was handled
C18_Witness ==
    /\ hist.dropped
    /\ ~hist.aborted
    /\ NumData(events) = 1
    /\ NumEnd(events) = 1

\* C19: an audio callback that finds the session not recording posts
\* nothing, and the worker's buffers change only when it handles an init,
\* record or clear message; when the worker handles the export request of a
\* stop that found the session recording, the last chunks of its buffer are
\* the chunks delivered in that cycle, in delivery order and each once, the
\* one whose observation stopped the recording included, recLength counts
\* them, and with an accepted rate the export is posted.
C19_ChunksOfCycleExported ==
    [][/\ (AudioCallback /\ ~recording) => toWorker' = toWorker
       /\ recBuffers' # recBuffers
          => \/ WorkerHandles("init")
             \/ WorkerHandles("record")
             \/ WorkerHandles("clear")
       /\ WorkerHandles("exportWAV")
          => LET from == Head(hist.cycles)[1]
                 count == Head(hist.cycles)[2] - from
                 buffer == recBuffers[1]
                 first == Len(buffer) - count
             IN  count > 0
                 => /\ first >= 0
                    /\ \A j \in 1..count :
                          buffer[first + j] = ChunkAt(from + j)[1]
                    /\ \A i \in 1..first : \A j \in 1..count :
                          buffer[i] # ChunkAt(from + j)[1]
                    /\ recLength = Len(buffer) * BufferLen
                    /\ RateAccepted => Len(toMain') = Len(toMain) + 1]_vars

\* the worker is about to export a cycle of two chunks, the second being
\* the one whose observation stopped the recording
C19_Witness ==
    /\ ~terminated
    /\ toWorker # <<>>
    /\ Head(toWorker).command = "exportWAV"
    /\ Head(hist.cycles)[2] - Head(hist.cycles)[1] = 2
    /\ hist.autoStops = 1
    /\ RateAccepted

(***************************************************************************)
(* The worker-only specification: the worker handles an init message and   *)
(* then any record, clear, getBuffer and exportWAV messages, every record  *)
(* carrying chunks of one length for all channels.  The main thread takes  *)
(* each reply before the next message is handled.  Here hist holds the     *)
(* number of messages handled and, per channel, the samples that arrived   *)
(* since the last clear, in arrival order, the last command handled and    *)
(* the rate the last export asked for.                                     *)
(***************************************************************************)
\* a chunk of len frames for each input channel, the k-th message's; every
\* sample differs from those of the other messages and channels
WorkerChunk(k, len) ==
    LET den == (MaxMsgs + 2) * (MaxChunkLen + 1) * (AudioTracks + 1)
    IN  [c \in 1..AudioTracks |->
            [j \in 1..len |->
                Rat((k * (MaxChunkLen + 1) + j) * (AudioTracks + 1) + c, den)]]

WorkerHandle(msg) ==
    /\ hist.msgs < MaxMsgs
    /\ Apply(onmessage([State EXCEPT !.toMain = <<>>], msg))

PostInit ==
    /\ numChannels = Undefined
    /\ \E n \in 1..AudioTracks :
          /\ WorkerHandle([command |-> "init",
                           payload |-> [sampleRate |-> ContextSampleRate,
                                        numChannels |-> n]])
          /\ hist' = [msgs |-> hist.msgs + 1, last |-> "init",
                      rate |-> Undefined,
                      arrived |-> [c \in 1..n |-> <<>>]]

PostRecord ==
    /\ numChannels # Undefined
    /\ \E len \in 0..MaxChunkLen :
          LET buffer == WorkerChunk(hist.msgs, len)
          IN  /\ WorkerHandle([command |-> "record",
                               payload |-> [buffer |-> buffer]])
              /\ hist' = [msgs |-> hist.msgs + 1, last |-> "record",
                          rate |-> Undefined,
                          arrived |-> [c \in DOMAIN hist.arrived |->
                                          hist.arrived[c] \o buffer[c]]]

PostClear ==
    /\ numChannels # Undefined
    /\ WorkerHandle([command |-> "clear"])
    /\ hist' = [msgs |-> hist.msgs + 1, last |-> "clear",
                rate |-> Undefined,
                arrived |-> [c \in DOMAIN hist.arrived |-> <<>>]]

PostGetBuffer ==
    /\ numChannels # Undefined
    /\ WorkerHandle([command |-> "getBuffer"])
    /\ hist' = [hist EXCEPT !.msgs = @ + 1, !.last = "getBuffer",
                             !.rate = Undefined]

PostExportWAV ==
    /\ numChannels # Undefined
    /\ \E rate \in {Undefined, ContextSampleRate, ContextSampleRate \div 2} :
          /\ WorkerHandle([command |-> "exportWAV",
                           payload |-> [type |-> "audio/wav", rate |-> rate]])
          /\ hist' = [hist EXCEPT !.msgs = @ + 1, !.last = "exportWAV",
                                   !.rate = rate]

WorkerInit ==
    /\ options = constructorOptions([given |-> {}])
    /\ recording = FALSE
    /\ ready = FALSE
    /\ quietTime = 0
    /\ maxVolume = 99
    /\ connected = FALSE
    /\ tracksStopped = FALSE
    /\ now = 0
    /\ terminated = FALSE
    /\ recLength = 0
    /\ recBuffers = <<>>
    /\ sampleRate = Undefined
    /\ numChannels = Undefined
    /\ toWorker = <<>>
    /\ toMain = <<>>
    /\ events = <<>>
    /\ hist = [msgs |-> 0, last |-> "none", rate |-> Undefined,
               arrived |-> <<>>]

WorkerNext ==
    \/ PostInit
    \/ PostRecord
    \/ PostClear
    \/ PostGetBuffer
    \/ PostExportWAV

WorkerSpec == WorkerInit /\ [][WorkerNext]_vars

(***************************************************************************)
(* Properties of the worker-only specification.                            *)
(***************************************************************************)
\* C10: after any record and clear messages with chunks of equal length on
\* every channel, the merge of each channel does not fail, its length is the
\* sum of the channel's chunk lengths, which is recLength, and its content is
\* the samples that arrived since the last clear, in arrival order; handling
\* getBuffer or exportWAV merges without changing the buffered chunks, and
\* the reply to getBuffer carries those merged arrays.
C10_MergeIsConcatenation ==
    [][/\ \A c \in 1..numChannels' :
             LET merged == mergeBuffers(recBuffers'[c], recLength')
             IN  /\ ~mergeBuffersThrows(recBuffers'[c], recLength')
                 /\ Len(merged) = TotalLen(recBuffers'[c])
                 /\ TotalLen(recBuffers'[c]) = recLength'
                 /\ merged = hist'.arrived[c]
       /\ hist'.last \in {"getBuffer", "exportWAV"}
             => UNCHANGED <<recBuffers, recLength>>
       /\ hist'.last = "getBuffer"
             => toMain' = << [command |-> "getBuffer",
                              data |-> hist.arrived] >>]_vars

\* two channels were merged for getBuffer, each from two chunks that
\* arrived after a clear
C10_Witness ==
    /\ numChannels = 2
    /\ Len(recBuffers[2]) = 2
    /\ Len(recBuffers[2][1]) > 0
    /\ Len(recBuffers[2][2]) > 0
    /\ hist.msgs >= 5
    /\ toMain # <<>>
    /\ toMain[1].command = "getBuffer"

\* the step is the worker handling an exportWAV message
Exports == hist'.last = "exportWAV"

\* the DataView of the export the worker has just posted
ExportedView == toMain'[1].payload.view

\* C12: interleaving two channels of length L gives 2L samples, the k-th of
\* the first channel at index 2k and the k-th of the second at index 2k + 1
\* (from 0); an export of two channels holds the interleaved samples, and an
\* export of one channel holds the merged channel as it is.
C12_InterleaveAlternates ==
    [][(Exports /\ ExportedView.sampleRate = sampleRate)
          => LET left == hist.arrived[1]
                 right == hist.arrived[2]
                 out == interleave(left, right)
             IN  IF numChannels = 2
                 THEN /\ Len(out) = 2 * Len(left)
                      /\ \A k \in 0..(Len(left) - 1) :
                            /\ out[2 * k + 1] = left[k + 1]
                            /\ out[2 * k + 2] = right[k + 1]
                      /\ ExportedView.pcm = floatTo16BitPCM(out)
                 ELSE /\ ExportedView.pcm = floatTo16BitPCM(left)
                      /\ Len(ExportedView.pcm) = recLength]_vars

\* two channels of three or more samples each were exported at the source
\* rate
C12_Witness ==
    /\ hist.last = "exportWAV"
    /\ numChannels = 2
    /\ recLength >= 3
    /\ toMain[1].payload.view.sampleRate = sampleRate
    /\ Len(toMain[1].payload.view.pcm) = 2 * recLength

\* C14: the header of every export agrees with its data: the channel
\* count is numChannels, the sample rate is the rate asked for (the source
\* rate when none is), the byte rate is rate * channels * 2, the block align
\* channels * 2, the data length twice the number of exported samples (and
\* recLength * channels * 2 at the source rate), the RIFF length 36 more and
\* the whole file 44 bytes more than the data length.
C14_HeaderMatchesData ==
    [][Exports
          => LET target == IF hist'.rate = Undefined THEN sampleRate
                           ELSE hist'.rate
                 view == ExportedView
             IN  /\ Len(toMain') = 1
                 /\ toMain'[1].command = "exportWAV"
                 /\ view.channels = numChannels
                 /\ view.sampleRate = target
                 /\ view.byteRate = target * numChannels * 2
                 /\ view.blockAlign = numChannels * 2
                 /\ view.dataLength = 2 * Len(view.pcm)
                 /\ target = sampleRate
                       => view.dataLength = recLength * numChannels * 2
                 /\ view.riffLength = 36 + view.dataLength
                 /\ view.byteLength = 44 + view.dataLength]_vars

\* one channel was exported at half the source rate
C14_Witness ==
    /\ hist.last = "exportWAV"
    /\ numChannels = 1
    /\ recLength >= 3
    /\ hist.rate = ContextSampleRate \div 2
    /\ toMain[1].payload.view.dataLength < 2 * recLength

(***************************************************************************)
(* The specification of the pure functions: interleave, downsampleBuffer,  *)
(* floatTo16BitPCM and the constructor's options are applied to inputs     *)
(* drawn from bounded sets.  Here hist holds the last call: its name, its  *)
(* inputs and its outcome; a behaviour is one call.  The session itself    *)
(* stays as constructed.                                                   *)
(***************************************************************************)
\* the arrays of at most n samples drawn from S
ArraysOf(S, n) == UNION {[1..len -> S] : len \in 0..n}

\* samples of a channel
ChannelSamples == {Rat(-1, 2), Rat(1, 3)}

\* samples around the clamping bounds of floatTo16BitPCM, and NaN
PCMSamples ==
    {Rat(-3, 2), Rat(-1, 1), Rat(-1, 2), Rat(0, 1), Rat(1, 3), Rat(1, 1),
     Rat(3, 2), NaN}

\* an array of len different samples
Ramp(len) == [i \in 1..len |-> Rat(i, MaxBufferLen + 2)]

\* the options a caller may pass, every field given or omitted
OptionInputs ==
    { [given |-> g, mono |-> m, quietThresholdTime |-> q,
       volumeThreshold |-> v, sampleRate |-> Undefined] :
        g \in SUBSET {"mono", "quietThresholdTime", "volumeThreshold"},
        m \in BOOLEAN, q \in {0, 2}, v \in {0, -50} }

CallInterleave ==
    /\ hist.op = "none"
    /\ \E inputL, inputR \in ArraysOf(ChannelSamples, MaxLen) :
          hist' = [op |-> "interleave", inputL |-> inputL, inputR |-> inputR,
                   threw |-> interleaveThrows(inputL, inputR),
                   result |-> interleave(inputL, inputR)]
    /\ UNCHANGED <<options, recording, ready, quietTime, maxVolume, connected,
                   tracksStopped, now, terminated, recLength, recBuffers,
                   sampleRate, numChannels, toWorker, toMain, events>>

CallDownsampleBuffer ==
    /\ hist.op = "none"
    /\ \E len \in 0..MaxBufferLen, rate \in 1..MaxRate, srcRate \in 1..MaxRate :
          LET threw == downsampleBufferThrows(rate, srcRate)
          IN  hist' = [op |-> "downsampleBuffer", buffer |-> Ramp(len),
                       rate |-> rate, srcRate |-> srcRate, threw |-> threw,
                       result |-> IF threw THEN <<>>
                                  ELSE downsampleBuffer(Ramp(len), rate, srcRate)]
    /\ UNCHANGED <<options, recording, ready, quietTime, maxVolume, connected,
                   tracksStopped, now, terminated, recLength, recBuffers,
                   sampleRate, numChannels, toWorker, toMain, events>>

CallFloatTo16BitPCM ==
    /\ hist.op = "none"
    /\ \E input \in ArraysOf(PCMSamples, MaxLen) :
          hist' = [op |-> "floatTo16BitPCM", input |-> input,
                   result |-> floatTo16BitPCM(input)]
    /\ UNCHANGED <<options, recording, ready, quietTime, maxVolume, connected,
                   tracksStopped, now, terminated, recLength, recBuffers,
                   sampleRate, numChannels, toWorker, toMain, events>>

\* new Recorder(stream, supplied) and the init message its setup() posts
Construct ==
    /\ hist.op = "none"
    /\ \E supplied \in OptionInputs :
          LET built == constructorOptions(supplied)
              s == setup([State EXCEPT !.options = built])
          IN  hist' = [op |-> "constructor", supplied |-> supplied,
                       options |-> built,
                       numChannels |-> s.toWorker[1].payload.numChannels]
    /\ UNCHANGED <<options, recording, ready, quietTime, maxVolume, connected,
                   tracksStopped, now, terminated, recLength, recBuffers,
                   sampleRate, numChannels, toWorker, toMain, events>>

FuncInit ==
    /\ options = constructorOptions([given |-> {}])
    /\ recording = FALSE
    /\ ready = FALSE
    /\ quietTime = 0
    /\ maxVolume = 99
    /\ connected = FALSE
    /\ tracksStopped = FALSE
    /\ now = 0
    /\ terminated = FALSE
    /\ recLength = 0
    /\ recBuffers = <<>>
    /\ sampleRate = Undefined
    /\ numChannels = Undefined
    /\ toWorker = <<>>
    /\ toMain = <<>>
    /\ events = <<>>
    /\ hist = [op |-> "none"]

FuncNext ==
    \/ CallInterleave
    \/ CallDownsampleBuffer
    \/ CallFloatTo16BitPCM
    \/ Construct

FuncSpec == FuncInit /\ [][FuncNext]_vars

(***************************************************************************)
(* Properties of the specification of the pure functions.                  *)
(***************************************************************************)
\* C11: interleave fails when its inputs differ in length, and gives no
\* result then.
C11_InterleaveLengthMismatch ==
    (hist.op = "interleave" /\ Len(hist.inputL) # Len(hist.inputR))
        => hist.threw

\* m is Math.round(n / d) for n >= 0 and d > 0: the integer nearest to
\* n / d, the upper one of two
IsRounded(m, n, d) == 2 * n - d < 2 * m * d /\ 2 * m * d <= 2 * n + d

\* the average of array[lo + 1 .. hi] (the samples of indices lo .. hi - 1
\* from 0)
Average(array, lo, hi) ==
    RDivInt(SumSeq([j \in 1..(hi - lo) |-> array[lo + j]]), hi - lo)

\* C13: for targetRate < sourceRate downsampleBuffer does not fail and
\* returns round(inputLength / (sourceRate / targetRate)) samples; the sample
\* of index i is the average of the input's indices from round(i * ratio) up
\* to, not including, min(round((i + 1) * ratio), inputLength), a range that
\* is never empty, so no sample is a division by a count of zero; and for
\* targetRate = sourceRate the input is returned as it is.
C13_DownsampleAverages ==
    hist.op = "downsampleBuffer"
    => LET len == Len(hist.buffer)
           Bound(i) == CHOOSE m \in 0..((i + 1) * MaxRate) :
                          IsRounded(m, i * hist.srcRate, hist.rate)
       IN  /\ hist.rate < hist.srcRate
              => /\ ~hist.threw
                 /\ IsRounded(Len(hist.result), len * hist.rate, hist.srcRate)
                 /\ \A i \in 0..(Len(hist.result) - 1) :
                       LET lo == Bound(i)
                           hi == Min(Bound(i + 1), len)
                       IN  /\ lo < hi
                           /\ ~IsNaN(hist.result[i + 1])
                           /\ hist.result[i + 1] = Average(hist.buffer, lo, hi)
           /\ hist.rate = hist.srcRate
              => ~hist.threw /\ hist.result = hist.buffer

\* a buffer was downsampled by a ratio that is no integer, to a length
\* rounded up from a half
C13_Witness ==
    /\ hist.op = "downsampleBuffer"
    /\ hist.rate < hist.srcRate
    /\ hist.srcRate % hist.rate # 0
    /\ (2 * Len(hist.buffer) * hist.rate) % (2 * hist.srcRate) = hist.srcRate
    /\ Len(hist.result) >= 2

\* C16: floatTo16BitPCM writes one 16-bit value per input sample, in input
\* order: the sample clamped to [-1, 1], multiplied by 32768 when negative
\* and by 32767 otherwise, and truncated, so that every value lies in
\* -32768..32767, a sample <= -1 gives -32768, a sample >= 1 gives 32767 and
\* 0 gives 0.
C16_PCMClampsAndScales ==
    hist.op = "floatTo16BitPCM"
    => /\ Len(hist.result) = Len(hist.input)
       /\ \A i \in 1..Len(hist.input) :
             LET n == hist.input[i][1]
                 d == hist.input[i][2]
                 out == hist.result[i]
             IN  /\ out \in -32768..32767
                 /\ ~IsNaN(hist.input[i])
                    => /\ n <= -d => out = -32768
                       /\ n >= d => out = 32767
                       /\ n = 0 => out = 0
                       /\ (-d < n /\ n < 0) => out = -((-n * 32768) \div d)
                       /\ (0 <= n /\ n < d) => out = (n * 32767) \div d

\* samples below -1, inside [-1, 1] and above 1 were converted in one call
C16_Witness ==
    /\ hist.op = "floatTo16BitPCM"
    /\ hist.input = <<Rat(-3, 2), Rat(1, 3), Rat(3, 2)>>
    /\ hist.result = <<-32768, 10922, 32767>>

\* C15: an option takes its default only when the caller omits it: every
\* value the caller supplies is the value the session uses, and with
\* mono = false the channel count is the stream's number of audio tracks.
C15_SuppliedOptionsKept ==
    hist.op = "constructor"
    => /\ \A field \in hist.supplied.given :
             hist.options[field] = hist.supplied[field]
       /\ ("mono" \notin hist.supplied.given) => hist.options.mono
       /\ ("quietThresholdTime" \notin hist.supplied.given)
             => hist.options.quietThresholdTime = 5
       /\ ("volumeThreshold" \notin hist.supplied.given)
             => hist.options.volumeThreshold = -60
       /\ hist.numChannels = IF hist.options.mono THEN 1 ELSE AudioTracks
       /\ ("mono" \in hist.supplied.given /\ ~hist.supplied.mono)
             => hist.numChannels = AudioTracks

=============================================================================
